---- MODULE Spec2Model ----
(***************************************************************************)
(* Driver for the LCD module EA DOGM162 (Software/drivers/LCD_DOGM162.c).  *)
(*                                                                         *)
(* The model is a state machine of the driver's statements.  Every write   *)
(* to a GPIO register and every read of the data bus is one step.  The     *)
(* controller is the environment: each status read returns any value of    *)
(* StatusVals.                                                             *)
(*                                                                         *)
(* Control flow is kept in pc (the statement to execute next) and stack    *)
(* (the statements to return to).  A call that is the last statement of a  *)
(* function jumps to the callee and lets the callee return for it.         *)
(***************************************************************************)
EXTENDS Integers, Sequences, FiniteSets, TLC

(***************************************************************************)
(* Bounds of the model.                                                    *)
(***************************************************************************)
\* Polling loop iterations per millisecond (RTC_COUNTS_PER_SEC / 1000).
TicksPerMs == 2
\* Longest caller text handed to the line and string operations.
MaxTextLen == 18
\* Transfers of one public operation the controller may let time out.
MaxTimeouts == 1

(***************************************************************************)
(* Byte arithmetic.                                                        *)
(***************************************************************************)
RECURSIVE BitAnd(_, _)
BitAnd(a, b) ==
    IF a = 0 \/ b = 0 THEN 0
    ELSE (a % 2) * (b % 2) + 2 * BitAnd(a \div 2, b \div 2)

BitOr(a, b) == a + b - BitAnd(a, b)

ShiftRight(a, n) == a \div (2 ^ n)

ShiftLeft(a, n) == a * (2 ^ n)

\* Conversion of an int to uint8_t.
U8(v) == v % 256

(***************************************************************************)
(* Definitions of the source.                                              *)
(***************************************************************************)
\* LCD_DOGM162.h: the display has 2 lines of 16 characters.
LCD_DIMENSION_X == 16
LCD_DIMENSION_Y == 2
\* End of string.
EOS == 0
\* Ticks of the real time counter per second (AlarmClock.h).
RTC_COUNTS_PER_SEC == 1000 * TicksPerMs
LCD_WAIT_READY_TIMEOUT == RTC_COUNTS_PER_SEC \div 1000

LCD_CMD_CLEAR_DISPLAY == 1       \* 0x01
LCD_CMD_ENTRY_MODE_ID == 6       \* 0x06
LCD_CMD_DISPLAY_ON_D == 12       \* 0x0C
LCD_CMD_FCT_SET_DL == 48         \* 0x30
LCD_CMD_FCT_SET_N == 40          \* 0x28
LCD_CMD_FCT_SET_IS1 == 33        \* 0x21
LCD_CMD_FCT_SET_IS0 == 32        \* 0x20
LCD_CMD_SET_DDRAM_ADDR == 128    \* 0x80
LCD_CMD_IS0_SET_CGRAM == 64      \* 0x40
LCD_CMD_IS1_BIAS_SET == 20       \* 0x14
LCD_CMD_IS1_IBC_BON == 84        \* 0x54
LCD_CMD_IS1_CONTR == 112         \* 0x70
LCD_CMD_IS1_FOLLOW_FON == 104    \* 0x68
LCD_CMD_IS1_FOLLOW_RAB2 == 100   \* 0x64
LCD_CMD_IS1_FOLLOW_RAB0 == 97    \* 0x61

\* The contrast values of the controller: its configuration has six
\* contrast bits C5..C0.
Contrasts == 0..63

\* static const uint8_t l_CustChar[8][8]; slot and row are counted from 0.
l_CustChar ==
    << <<0, 0, 0, 0, 0, 0, 0, 0>>,
       <<0, 0, 0, 0, 0, 0, 0, 0>>,
       <<0, 0, 0, 0, 0, 0, 0, 0>>,
       <<0, 0, 0, 0, 0, 0, 0, 0>>,
       <<0, 0, 0, 0, 0, 0, 0, 0>>,
       <<4, 14, 21, 4, 4, 4, 4, 0>>,
       <<4, 4, 4, 4, 21, 14, 4, 0>>,
       <<0, 4, 2, 31, 2, 4, 0, 0>> >>

CustChar(slot, row) == l_CustChar[slot + 1][row + 1]

\* sizeof(buffer) of LCD_vPrintf; the model gives every caller's buffer
\* this capacity.
BufferSize == 40

(***************************************************************************)
(* Inputs.                                                                 *)
(***************************************************************************)
\* A text of n characters: 'A', 'B', 'C', 'A', ...
Text(n) == [k \in 1..n |-> 65 + ((k - 1) % 3)]

\* The texts handed to LCD_WriteLine: every length up to MaxTextLen.
Texts == {Text(n) : n \in 0..MaxTextLen}

\* Texts handed to LCD_Puts, and texts vsprintf() makes for LCD_vPrintf.
PutsTexts == {Text(n) : n \in {0, 1, 2, MaxTextLen}}

FormattedTexts == {Text(n) : n \in {1, MaxTextLen}}

\* The caller's buffer holding a text: the characters, the terminator, and
\* whatever the memory held before ('~' here) up to the capacity.
MkBuf(text) ==
    [k \in 1..BufferSize |->
        IF k <= Len(text) THEN text[k]
        ELSE IF k = Len(text) + 1 THEN EOS
        ELSE 126]

\* strlen(): the C index of the first terminator.
RECURSIVE StrLenFrom(_, _)
StrLenFrom(buf, k) ==
    IF k > Len(buf) \/ buf[k] = EOS THEN k - 1 ELSE StrLenFrom(buf, k + 1)

strlen(buf) == StrLenFrom(buf, 1)

LineNums == {-1, 0, 1, 2, 3}
XCoords == {0, 15, 16}
YCoords == {0, 1, 2, 4}
Chars == {0, 65, 255}
\* strlen(frmt) of a formatted write: within and beyond sizeof(buffer) - 10.
FrmtLens == {30, 31}
\* Values the controller may put on the bus during a status read:
\* ready and busy (bit 7), each with two address counter values.
StatusVals == {0, 127, 128, 255}

NoArgs == [lineNum |-> 0, text |-> <<>>, x |-> 0, y |-> 0, chr |-> 0,
           frmtLen |-> 0, on |-> FALSE]

(***************************************************************************)
(* State.                                                                  *)
(***************************************************************************)
VARIABLES
    \* GPIO output registers and the data bus mode
    pwr,            \* LCD_POWER_PIN level
    E, RW, RS,      \* control lines
    busDir,         \* MODEH of the data port: "disabled", "in", "out"
    dataOut,        \* DOUT bits 15:8 of the data port
    \* driver data
    l_flgLCD_IsOn,
    l_Contrast,     \* set by its initializer; no statement writes it
    \* control
    pc, stack,
    \* parameters and locals
    lineNum, buffer, len, pStr,     \* LCD_vPrintf, LCD_WriteLine, LCD_Puts
    chr,                            \* LCD_Putc
    gx, gy,                         \* LCD_GotoXY
    ch, i,                          \* LCD_PowerOn
    arg,                            \* CmdWrite / DataWrite parameter
    wi, status, timeout,            \* WaitCtrlReady / BusyRead
    \* observation of the running (or last) public operation
    op,             \* its name
    args,           \* its arguments and the flag at the call
    calls,          \* the CmdWrite/DataWrite calls made so far
    dropped,        \* the transfers abandoned by a timeout so far
    latched,        \* the bytes latched so far (E pulsed with RW = 0)
    trace,          \* bus accesses since the entry of the current
                    \* LCD_PowerOn, LCD_PowerOff, CmdWrite or DataWrite
    busTouched,     \* a GPIO register was accessed
    violated        \* assertEFM() was called

hw == <<pwr, E, RW, RS, busDir, dataOut>>
ctl == <<pc, stack>>
loc == <<lineNum, buffer, len, pStr, chr, gx, gy, ch, i>>
xfer == <<arg, wi, status, timeout>>
obs == <<op, args, calls, dropped, latched, trace, busTouched, violated>>
vars == <<hw, l_flgLCD_IsOn, l_Contrast, ctl, loc, xfer, obs>>

\* Everything but the registers, the control state and the bus observation.
rest == <<l_flgLCD_IsOn, l_Contrast, loc, xfer, op, args, calls, dropped, latched,
          violated>>

NoBuffer == MkBuf(<<>>)

\* The state after construction, but for the initializer of l_Contrast.
InitButContrast ==
    /\ pwr = 0 /\ E = 0 /\ RW = 0 /\ RS = 0
    /\ busDir = "disabled" /\ dataOut = 0
    /\ l_flgLCD_IsOn = FALSE
    /\ pc = "idle" /\ stack = <<>>
    /\ lineNum = 0 /\ buffer = NoBuffer /\ len = 0 /\ pStr = 0
    /\ chr = 0 /\ gx = 0 /\ gy = 0 /\ ch = 0 /\ i = 0
    /\ arg = 0 /\ wi = 0 /\ status = 0 /\ timeout = FALSE
    /\ op = "none" /\ args = NoArgs /\ calls = <<>> /\ dropped = 0
    /\ latched = 0
    /\ trace = <<>> /\ busTouched = FALSE /\ violated = FALSE

\* static volatile int l_Contrast = 25;
Init == l_Contrast = 25 /\ InitButContrast

\* The driver built with any contrast value in place of 25.
InitContrast == l_Contrast \in Contrasts /\ InitButContrast

(***************************************************************************)
(* Control flow and observation helpers.                                   *)
(***************************************************************************)
Goto(l) == pc' = l /\ UNCHANGED stack

Return == pc' = Head(stack) /\ stack' = Tail(stack)

\* A public operation is called while no other runs.
Enter(name, a, entry) ==
    /\ pc = "idle"
    /\ pc' = entry /\ stack' = <<"idle">>
    /\ op' = name /\ args' = [a EXCEPT !.on = l_flgLCD_IsOn]
    /\ calls' = <<>> /\ dropped' = 0 /\ latched' = 0 /\ trace' = <<>>
    /\ busTouched' = FALSE /\ violated' = FALSE

\* The parameters and locals at the call of a public operation.
Locals(ln, buf, c, x, y) ==
    /\ lineNum' = ln /\ buffer' = buf /\ len' = 0 /\ pStr' = 0
    /\ chr' = c /\ gx' = x /\ gy' = y /\ ch' = 0 /\ i' = 0

\* A GPIO access.
Touch(ev) == trace' = Append(trace, ev) /\ busTouched' = TRUE

(***************************************************************************)
(* BusyRead: read busy flag and address counter.  Called by WaitCtrlReady  *)
(* only, to which its last statement returns the sampled status.           *)
(***************************************************************************)
\* BusyRead leaving the data bus in output mode.
BusyRead_ModeOut ==
    /\ pc = "BusyRead_462"
    /\ busDir' = "out" /\ Touch(<<"dir", 1>>)
    /\ Goto("BusyRead_463")
    /\ UNCHANGED <<pwr, E, RW, RS, dataOut, rest>>

BusyRead_ModeIn ==
    /\ pc = "BusyRead_462"
    /\ busDir' = "in" /\ Touch(<<"dir", 0>>)
    /\ Goto("BusyRead_463")
    /\ UNCHANGED <<pwr, E, RW, RS, dataOut, rest>>

BusyRead_RW ==
    /\ pc = "BusyRead_463"
    /\ RW' = 1 /\ Touch(<<"RW", 1>>)
    /\ Goto("BusyRead_464")
    /\ UNCHANGED <<pwr, E, RS, busDir, dataOut, rest>>

BusyRead_RS ==
    /\ pc = "BusyRead_464"
    /\ RS' = 0 /\ Touch(<<"RS", 0>>)
    /\ Goto("BusyRead_465")
    /\ UNCHANGED <<pwr, E, RW, busDir, dataOut, rest>>

BusyRead_E1 ==
    /\ pc = "BusyRead_465"
    /\ E' = 1 /\ Touch(<<"E", 1>>)
    /\ Goto("BusyRead_467")
    /\ UNCHANGED <<pwr, RW, RS, busDir, dataOut, rest>>

BusyRead_Tick ==
    /\ pc = "BusyRead_467"
    /\ trace' = Append(trace, <<"tick", 0>>)
    /\ Goto("BusyRead_468")
    /\ UNCHANGED <<hw, rest, busTouched>>

\* READ_LCD_DATA(): the controller drives the bus; the event records bit 7.
\* The controller answers the last poll of a transfer with busy, which
\* abandons the transfer, for at most MaxTimeouts transfers of an operation.
BusyRead_Sample ==
    /\ pc = "BusyRead_468"
    /\ \E v \in StatusVals :
          /\ (v >= 128 /\ wi + 1 >= LCD_WAIT_READY_TIMEOUT)
                => dropped < MaxTimeouts
          /\ status' = v
          /\ Touch(<<"read", v \div 128>>)
    /\ Goto("BusyRead_470")
    /\ UNCHANGED <<hw, l_flgLCD_IsOn, l_Contrast, loc, arg, wi, timeout,
                   op, args, calls, dropped, latched, violated>>

\* BusyRead returning without deasserting E.
BusyRead_E0Kept ==
    /\ pc = "BusyRead_470"
    /\ Goto("WaitCtrlReady_495")
    /\ UNCHANGED <<hw, rest, trace, busTouched>>

BusyRead_E0 ==
    /\ pc = "BusyRead_470"
    /\ E' = 0 /\ Touch(<<"E", 0>>)
    /\ Goto("WaitCtrlReady_495")
    /\ UNCHANGED <<pwr, RW, RS, busDir, dataOut, rest>>

(***************************************************************************)
(* WaitCtrlReady: poll until ready or timeout.  timeout is its result.     *)
(***************************************************************************)
\* for (i = 0;  i < LCD_WAIT_READY_TIMEOUT;  i++) ... return true;
WaitCtrlReady_Loop ==
    /\ pc = "WaitCtrlReady_493"
    /\ IF wi < LCD_WAIT_READY_TIMEOUT
          THEN /\ Goto("BusyRead_462")
               /\ UNCHANGED <<wi, timeout>>
          ELSE /\ timeout' = TRUE /\ wi' = 0
               /\ Return
    /\ UNCHANGED <<hw, l_flgLCD_IsOn, l_Contrast, loc, arg, status, obs>>

\* The test of the whole status byte instead of bit 7.
IsReadyAllBits(s) == s = 0

\* The test of the sampled status.
IsReady(s) == BitAnd(s, ShiftLeft(1, 7)) = 0

\* if ((BusyRead() & (1 << 7)) == false) return false;
WaitCtrlReady_Test ==
    /\ pc = "WaitCtrlReady_495"
    /\ IF IsReady(status)
          THEN /\ timeout' = FALSE /\ wi' = 0
               /\ Return
          ELSE /\ Goto("WaitCtrlReady_498")
               /\ UNCHANGED <<wi, timeout>>
    /\ status' = 0
    /\ UNCHANGED <<hw, l_flgLCD_IsOn, l_Contrast, loc, arg, obs>>

\* WaitCtrlReady without the increment of its loop counter.
WaitCtrlReady_DelayNoCount ==
    /\ pc = "WaitCtrlReady_498"
    /\ trace' = Append(trace, <<"tick", 0>>)
    /\ Goto("WaitCtrlReady_493")
    /\ UNCHANGED <<hw, l_flgLCD_IsOn, l_Contrast, loc, xfer,
                   op, args, calls, dropped, latched, busTouched, violated>>

\* DelayTick(); i++
WaitCtrlReady_Delay ==
    /\ pc = "WaitCtrlReady_498"
    /\ trace' = Append(trace, <<"tick", 0>>)
    /\ wi' = wi + 1
    /\ Goto("WaitCtrlReady_493")
    /\ UNCHANGED <<hw, l_flgLCD_IsOn, l_Contrast, loc, arg, status, timeout,
                   op, args, calls, dropped, latched, busTouched, violated>>

(***************************************************************************)
(* CmdWrite: write a command to the controller.                            *)
(***************************************************************************)
\* A call of CmdWrite(cmd) that returns to ret.
CallCmdWrite(cmd, ret) ==
    /\ pc' = "CmdWrite_520" /\ stack' = <<ret>> \o stack
    /\ arg' = U8(cmd)
    /\ calls' = Append(calls, [fn |-> "CmdWrite", byte |-> U8(cmd)])
    /\ trace' = <<>>

\* CmdWrite(cmd) as the caller's last statement.
JumpCmdWrite(cmd) ==
    /\ pc' = "CmdWrite_520" /\ UNCHANGED stack
    /\ arg' = U8(cmd)
    /\ calls' = Append(calls, [fn |-> "CmdWrite", byte |-> U8(cmd)])
    /\ trace' = <<>>

CmdWrite_Wait ==
    /\ pc = "CmdWrite_520"
    /\ pc' = "WaitCtrlReady_493" /\ stack' = <<"CmdWrite_521">> \o stack
    /\ wi' = 0
    /\ UNCHANGED <<hw, l_flgLCD_IsOn, l_Contrast, loc, arg, status, timeout, obs>>

\* CmdWrite ignoring the result of WaitCtrlReady.
CmdWrite_CheckIgnored ==
    /\ pc = "CmdWrite_521"
    /\ Goto("CmdWrite_523")
    /\ timeout' = FALSE
    /\ UNCHANGED <<hw, l_flgLCD_IsOn, l_Contrast, loc, arg, wi, status, obs>>

\* if (WaitCtrlReady()) return;
CmdWrite_Check ==
    /\ pc = "CmdWrite_521"
    /\ IF timeout
          THEN /\ dropped' = dropped + 1 /\ arg' = 0
               /\ Return
          ELSE /\ Goto("CmdWrite_523")
               /\ UNCHANGED <<dropped, arg>>
    /\ timeout' = FALSE
    /\ UNCHANGED <<hw, l_flgLCD_IsOn, l_Contrast, loc, wi, status,
                   op, args, calls, latched, trace, busTouched, violated>>

CmdWrite_ModeOut ==
    /\ pc = "CmdWrite_523"
    /\ busDir' = "out" /\ Touch(<<"dir", 1>>)
    /\ Goto("CmdWrite_524")
    /\ UNCHANGED <<pwr, E, RW, RS, dataOut, rest>>

\* CmdWrite without the statement that sets RW to 0.
CmdWrite_RWSkipped ==
    /\ pc = "CmdWrite_524"
    /\ Goto("CmdWrite_525")
    /\ UNCHANGED <<hw, rest, trace, busTouched>>

CmdWrite_RW ==
    /\ pc = "CmdWrite_524"
    /\ RW' = 0 /\ Touch(<<"RW", 0>>)
    /\ Goto("CmdWrite_525")
    /\ UNCHANGED <<pwr, E, RS, busDir, dataOut, rest>>

CmdWrite_RS ==
    /\ pc = "CmdWrite_525"
    /\ RS' = 0 /\ Touch(<<"RS", 0>>)
    /\ Goto("CmdWrite_527")
    /\ UNCHANGED <<pwr, E, RW, busDir, dataOut, rest>>

CmdWrite_Data ==
    /\ pc = "CmdWrite_527"
    /\ dataOut' = arg /\ Touch(<<"data", arg>>)
    /\ Goto("CmdWrite_529")
    /\ UNCHANGED <<pwr, E, RW, RS, busDir, rest>>

CmdWrite_E1 ==
    /\ pc = "CmdWrite_529"
    /\ E' = 1 /\ Touch(<<"E", 1>>)
    /\ latched' = latched + 1
    /\ Goto("CmdWrite_530")
    /\ UNCHANGED <<pwr, RW, RS, busDir, dataOut, l_flgLCD_IsOn, l_Contrast, loc, xfer,
                   op, args, calls, dropped, violated>>

CmdWrite_Tick ==
    /\ pc = "CmdWrite_530"
    /\ trace' = Append(trace, <<"tick", 0>>)
    /\ Goto("CmdWrite_531")
    /\ UNCHANGED <<hw, rest, busTouched>>

CmdWrite_E0 ==
    /\ pc = "CmdWrite_531"
    /\ E' = 0 /\ Touch(<<"E", 0>>)
    /\ arg' = 0
    /\ Return
    /\ UNCHANGED <<pwr, RW, RS, busDir, dataOut, l_flgLCD_IsOn, l_Contrast, loc,
                   wi, status, timeout, op, args, calls, dropped, latched, violated>>

(***************************************************************************)
(* DataWrite: write a data byte to the controller's memory.                *)
(***************************************************************************)
CallDataWrite(data, ret) ==
    /\ pc' = "DataWrite_584" /\ stack' = <<ret>> \o stack
    /\ arg' = U8(data)
    /\ calls' = Append(calls, [fn |-> "DataWrite", byte |-> U8(data)])
    /\ trace' = <<>>

JumpDataWrite(data) ==
    /\ pc' = "DataWrite_584" /\ UNCHANGED stack
    /\ arg' = U8(data)
    /\ calls' = Append(calls, [fn |-> "DataWrite", byte |-> U8(data)])
    /\ trace' = <<>>

DataWrite_Wait ==
    /\ pc = "DataWrite_584"
    /\ pc' = "WaitCtrlReady_493" /\ stack' = <<"DataWrite_585">> \o stack
    /\ wi' = 0
    /\ UNCHANGED <<hw, l_flgLCD_IsOn, l_Contrast, loc, arg, status, timeout, obs>>

\* DataWrite with the test of the result of WaitCtrlReady inverted.
DataWrite_CheckInverted ==
    /\ pc = "DataWrite_585"
    /\ IF ~timeout
          THEN /\ dropped' = dropped + 1 /\ arg' = 0
               /\ Return
          ELSE /\ Goto("DataWrite_587")
               /\ UNCHANGED <<dropped, arg>>
    /\ timeout' = FALSE
    /\ UNCHANGED <<hw, l_flgLCD_IsOn, l_Contrast, loc, wi, status,
                   op, args, calls, latched, trace, busTouched, violated>>

\* if (WaitCtrlReady()) return;
DataWrite_Check ==
    /\ pc = "DataWrite_585"
    /\ IF timeout
          THEN /\ dropped' = dropped + 1 /\ arg' = 0
               /\ Return
          ELSE /\ Goto("DataWrite_587")
               /\ UNCHANGED <<dropped, arg>>
    /\ timeout' = FALSE
    /\ UNCHANGED <<hw, l_flgLCD_IsOn, l_Contrast, loc, wi, status,
                   op, args, calls, latched, trace, busTouched, violated>>

DataWrite_ModeOut ==
    /\ pc = "DataWrite_587"
    /\ busDir' = "out" /\ Touch(<<"dir", 1>>)
    /\ Goto("DataWrite_588")
    /\ UNCHANGED <<pwr, E, RW, RS, dataOut, rest>>

DataWrite_RW ==
    /\ pc = "DataWrite_588"
    /\ RW' = 0 /\ Touch(<<"RW", 0>>)
    /\ Goto("DataWrite_589")
    /\ UNCHANGED <<pwr, E, RS, busDir, dataOut, rest>>

\* DataWrite selecting the instruction register.
DataWrite_RSRegister ==
    /\ pc = "DataWrite_589"
    /\ RS' = 0 /\ Touch(<<"RS", 0>>)
    /\ Goto("DataWrite_591")
    /\ UNCHANGED <<pwr, E, RW, busDir, dataOut, rest>>

DataWrite_RS ==
    /\ pc = "DataWrite_589"
    /\ RS' = 1 /\ Touch(<<"RS", 1>>)
    /\ Goto("DataWrite_591")
    /\ UNCHANGED <<pwr, E, RW, busDir, dataOut, rest>>

DataWrite_Data ==
    /\ pc = "DataWrite_591"
    /\ dataOut' = arg /\ Touch(<<"data", arg>>)
    /\ Goto("DataWrite_593")
    /\ UNCHANGED <<pwr, E, RW, RS, busDir, rest>>

DataWrite_E1 ==
    /\ pc = "DataWrite_593"
    /\ E' = 1 /\ Touch(<<"E", 1>>)
    /\ latched' = latched + 1
    /\ Goto("DataWrite_594")
    /\ UNCHANGED <<pwr, RW, RS, busDir, dataOut, l_flgLCD_IsOn, l_Contrast, loc, xfer,
                   op, args, calls, dropped, violated>>

DataWrite_Tick ==
    /\ pc = "DataWrite_594"
    /\ trace' = Append(trace, <<"tick", 0>>)
    /\ Goto("DataWrite_595")
    /\ UNCHANGED <<hw, rest, busTouched>>

DataWrite_E0 ==
    /\ pc = "DataWrite_595"
    /\ E' = 0 /\ Touch(<<"E", 0>>)
    /\ arg' = 0
    /\ Return
    /\ UNCHANGED <<pwr, RW, RS, busDir, dataOut, l_flgLCD_IsOn, l_Contrast, loc,
                   wi, status, timeout, op, args, calls, dropped, latched, violated>>

(***************************************************************************)
(* LCD_Init and LCD_PowerOn.                                               *)
(***************************************************************************)
Call_LCD_Init ==
    /\ Enter("LCD_Init", NoArgs, "LCD_Init_175")
    /\ Locals(0, NoBuffer, 0, 0, 0)
    /\ UNCHANGED <<hw, l_flgLCD_IsOn, l_Contrast, xfer>>

\* LCD_PowerOn(); is the only statement of LCD_Init.
LCD_Init ==
    /\ pc = "LCD_Init_175"
    /\ Goto("PowerOn_191")
    /\ UNCHANGED <<hw, l_flgLCD_IsOn, l_Contrast, loc, xfer, obs>>

Call_LCD_PowerOn ==
    /\ Enter("LCD_PowerOn", NoArgs, "PowerOn_191")
    /\ Locals(0, NoBuffer, 0, 0, 0)
    /\ UNCHANGED <<hw, l_flgLCD_IsOn, l_Contrast, xfer>>

\* GPIO_PinModeSet (LCD_CTRL_PORT, LCD_CTRL_PIN_E, gpioModePushPull, 0);
LCD_PowerOn_PinE ==
    /\ pc = "PowerOn_191"
    /\ E' = 0 /\ Touch(<<"E", 0>>)
    /\ Goto("PowerOn_192")
    /\ UNCHANGED <<pwr, RW, RS, busDir, dataOut, rest>>

LCD_PowerOn_PinRW ==
    /\ pc = "PowerOn_192"
    /\ RW' = 0 /\ Touch(<<"RW", 0>>)
    /\ Goto("PowerOn_193")
    /\ UNCHANGED <<pwr, E, RS, busDir, dataOut, rest>>

LCD_PowerOn_PinRS ==
    /\ pc = "PowerOn_193"
    /\ RS' = 0 /\ Touch(<<"RS", 0>>)
    /\ Goto("PowerOn_196")
    /\ UNCHANGED <<pwr, E, RW, busDir, dataOut, rest>>

\* GPIO->P[LCD_DATA_PORT].DOUTCLR = LCD_DATA_MASK;
LCD_PowerOn_DataClear ==
    /\ pc = "PowerOn_196"
    /\ dataOut' = 0 /\ Touch(<<"data", 0>>)
    /\ Goto("PowerOn_199")
    /\ UNCHANGED <<pwr, E, RW, RS, busDir, rest>>

\* GPIO_PinModeSet (LCD_POWER_PORT, LCD_POWER_PIN, gpioModePushPull, 1);
LCD_PowerOn_Power ==
    /\ pc = "PowerOn_199"
    /\ pwr' = 1 /\ Touch(<<"pwr", 1>>)
    /\ Goto("PowerOn_202")
    /\ UNCHANGED <<E, RW, RS, busDir, dataOut, rest>>

\* msDelay (100);
LCD_PowerOn_Settle ==
    /\ pc = "PowerOn_202"
    /\ trace' = Append(trace, <<"ms", 100>>)
    /\ Goto("PowerOn_205")
    /\ UNCHANGED <<hw, rest, busTouched>>

LCD_PowerOn_FctSetIS1 ==
    /\ pc = "PowerOn_205"
    /\ CallCmdWrite(BitOr(BitOr(LCD_CMD_FCT_SET_DL, LCD_CMD_FCT_SET_N),
                          LCD_CMD_FCT_SET_IS1), "PowerOn_208")
    /\ UNCHANGED <<hw, l_flgLCD_IsOn, l_Contrast, loc, wi, status, timeout,
                   op, args, dropped, latched, busTouched, violated>>

LCD_PowerOn_Bias ==
    /\ pc = "PowerOn_208"
    /\ CallCmdWrite(LCD_CMD_IS1_BIAS_SET, "PowerOn_211")
    /\ UNCHANGED <<hw, l_flgLCD_IsOn, l_Contrast, loc, wi, status, timeout,
                   op, args, dropped, latched, busTouched, violated>>

\* LCD_PowerOn taking the high bits of the contrast one position too low.
LCD_PowerOn_BoosterShift3 ==
    /\ pc = "PowerOn_211"
    /\ CallCmdWrite(BitOr(LCD_CMD_IS1_IBC_BON, ShiftRight(l_Contrast, 3)),
                    "PowerOn_214")
    /\ UNCHANGED <<hw, l_flgLCD_IsOn, l_Contrast, loc, wi, status, timeout,
                   op, args, dropped, latched, busTouched, violated>>

LCD_PowerOn_Booster ==
    /\ pc = "PowerOn_211"
    /\ CallCmdWrite(BitOr(LCD_CMD_IS1_IBC_BON, ShiftRight(l_Contrast, 4)),
                    "PowerOn_214")
    /\ UNCHANGED <<hw, l_flgLCD_IsOn, l_Contrast, loc, wi, status, timeout,
                   op, args, dropped, latched, busTouched, violated>>

LCD_PowerOn_Follower ==
    /\ pc = "PowerOn_214"
    /\ CallCmdWrite(BitOr(BitOr(LCD_CMD_IS1_FOLLOW_FON,
                                LCD_CMD_IS1_FOLLOW_RAB2),
                          LCD_CMD_IS1_FOLLOW_RAB0), "PowerOn_218")
    /\ UNCHANGED <<hw, l_flgLCD_IsOn, l_Contrast, loc, wi, status, timeout,
                   op, args, dropped, latched, busTouched, violated>>

LCD_PowerOn_Contrast ==
    /\ pc = "PowerOn_218"
    /\ CallCmdWrite(BitOr(LCD_CMD_IS1_CONTR, BitAnd(l_Contrast, 15)),
                    "PowerOn_221")
    /\ UNCHANGED <<hw, l_flgLCD_IsOn, l_Contrast, loc, wi, status, timeout,
                   op, args, dropped, latched, busTouched, violated>>

\* Select instruction table 0; on its return the loop starts with ch = 0.
LCD_PowerOn_FctSetIS0 ==
    /\ pc = "PowerOn_221"
    /\ CallCmdWrite(BitOr(BitOr(LCD_CMD_FCT_SET_DL, LCD_CMD_FCT_SET_N),
                          LCD_CMD_FCT_SET_IS0), "PowerOn_224")
    /\ ch' = 0
    /\ UNCHANGED <<hw, l_flgLCD_IsOn, l_Contrast, lineNum, buffer, len, pStr, chr,
                   gx, gy, i, wi, status, timeout,
                   op, args, dropped, latched, busTouched, violated>>

\* for (ch = 0;  ch < 8;  ch++) { CmdWrite (LCD_CMD_IS0_SET_CGRAM | (ch << 3));
LCD_PowerOn_SetCGRAM ==
    /\ pc = "PowerOn_224"
    /\ ch < 8
    /\ CallCmdWrite(BitOr(LCD_CMD_IS0_SET_CGRAM, ShiftLeft(ch, 3)),
                    "PowerOn_227")
    /\ i' = 0
    /\ UNCHANGED <<hw, l_flgLCD_IsOn, l_Contrast, lineNum, buffer, len, pStr, chr,
                   gx, gy, ch, wi, status, timeout,
                   op, args, dropped, latched, busTouched, violated>>

\* LCD_PowerOn with the indices of the glyph table transposed.
LCD_PowerOn_GlyphTransposed ==
    /\ pc = "PowerOn_227"
    /\ i < 8
    /\ CallDataWrite(CustChar(i, ch), "PowerOn_227")
    /\ i' = i + 1
    /\ UNCHANGED <<hw, l_flgLCD_IsOn, l_Contrast, lineNum, buffer, len, pStr, chr,
                   gx, gy, ch, wi, status, timeout,
                   op, args, dropped, latched, busTouched, violated>>

\* for (i = 0;  i < 8;  i++) DataWrite(l_CustChar[ch][i]);
LCD_PowerOn_Glyph ==
    /\ pc = "PowerOn_227"
    /\ i < 8
    /\ CallDataWrite(CustChar(ch, i), "PowerOn_227")
    /\ i' = i + 1
    /\ UNCHANGED <<hw, l_flgLCD_IsOn, l_Contrast, lineNum, buffer, len, pStr, chr,
                   gx, gy, ch, wi, status, timeout,
                   op, args, dropped, latched, busTouched, violated>>

\* The inner loop ends: ch++
LCD_PowerOn_NextCh ==
    /\ pc = "PowerOn_227"
    /\ ~(i < 8)
    /\ ch' = ch + 1 /\ i' = 0
    /\ Goto("PowerOn_224")
    /\ UNCHANGED <<hw, l_flgLCD_IsOn, l_Contrast, lineNum, buffer, len, pStr, chr,
                   gx, gy, xfer, obs>>

\* The outer loop ends: CmdWrite (LCD_CMD_DISPLAY_ON_D);
LCD_PowerOn_DisplayOn ==
    /\ pc = "PowerOn_224"
    /\ ~(ch < 8)
    /\ CallCmdWrite(LCD_CMD_DISPLAY_ON_D, "PowerOn_235")
    /\ ch' = 0
    /\ UNCHANGED <<hw, l_flgLCD_IsOn, l_Contrast, lineNum, buffer, len, pStr, chr,
                   gx, gy, i, wi, status, timeout,
                   op, args, dropped, latched, busTouched, violated>>

LCD_PowerOn_Clear ==
    /\ pc = "PowerOn_235"
    /\ CallCmdWrite(LCD_CMD_CLEAR_DISPLAY, "PowerOn_238")
    /\ UNCHANGED <<hw, l_flgLCD_IsOn, l_Contrast, loc, wi, status, timeout,
                   op, args, dropped, latched, busTouched, violated>>

LCD_PowerOn_EntryMode ==
    /\ pc = "PowerOn_238"
    /\ CallCmdWrite(LCD_CMD_ENTRY_MODE_ID, "PowerOn_241")
    /\ UNCHANGED <<hw, l_flgLCD_IsOn, l_Contrast, loc, wi, status, timeout,
                   op, args, dropped, latched, busTouched, violated>>

\* l_flgLCD_IsOn = true;
LCD_PowerOn_SetOn ==
    /\ pc = "PowerOn_241"
    /\ l_flgLCD_IsOn' = TRUE /\ UNCHANGED l_Contrast
    /\ trace' = Append(trace, <<"on", 1>>)
    /\ Return
    /\ UNCHANGED <<hw, loc, xfer, op, args, calls, dropped, latched,
                   busTouched, violated>>

(***************************************************************************)
(* LCD_PowerOff.                                                           *)
(***************************************************************************)
Call_LCD_PowerOff ==
    /\ Enter("LCD_PowerOff", NoArgs, "PowerOff_255")
    /\ Locals(0, NoBuffer, 0, 0, 0)
    /\ UNCHANGED <<hw, l_flgLCD_IsOn, l_Contrast, xfer>>

\* LCD_PowerOff without the statement that clears the flag.
LCD_PowerOff_KeepOn ==
    /\ pc = "PowerOff_255"
    /\ Goto("PowerOff_258")
    /\ UNCHANGED <<hw, l_flgLCD_IsOn, l_Contrast, loc, xfer, obs>>

\* LCD_PowerOff clearing the flag after it has switched the power off.
LCD_PowerOff_ClearOnLate ==
    /\ pc = "PowerOff_255"
    /\ pwr' = 0
    /\ l_flgLCD_IsOn' = FALSE /\ UNCHANGED l_Contrast
    /\ trace' = trace \o << <<"pwr", 0>>, <<"on", 0>> >>
    /\ busTouched' = TRUE
    /\ Goto("PowerOff_258")
    /\ UNCHANGED <<E, RW, RS, busDir, dataOut, loc, xfer, op, args, calls,
                   dropped, latched, violated>>

\* l_flgLCD_IsOn = false;
LCD_PowerOff_ClearOn ==
    /\ pc = "PowerOff_255"
    /\ l_flgLCD_IsOn' = FALSE /\ UNCHANGED l_Contrast
    /\ trace' = Append(trace, <<"on", 0>>)
    /\ Goto("PowerOff_258")
    /\ UNCHANGED <<hw, loc, xfer, op, args, calls, dropped, latched,
                   busTouched, violated>>

\* SET_LCD_POWER_PIN(0);
LCD_PowerOff_Power ==
    /\ pc = "PowerOff_258"
    /\ pwr' = 0 /\ Touch(<<"pwr", 0>>)
    /\ Goto("PowerOff_264")
    /\ UNCHANGED <<E, RW, RS, busDir, dataOut, rest>>

LCD_PowerOff_ModeOut ==
    /\ pc = "PowerOff_264"
    /\ busDir' = "out" /\ Touch(<<"dir", 1>>)
    /\ Goto("PowerOff_265")
    /\ UNCHANGED <<pwr, E, RW, RS, dataOut, rest>>

\* LCD_PowerOff without the statement that sets RW to 0.
LCD_PowerOff_RWSkipped ==
    /\ pc = "PowerOff_265"
    /\ Goto("PowerOff_266")
    /\ UNCHANGED <<hw, l_flgLCD_IsOn, l_Contrast, loc, xfer, obs>>

LCD_PowerOff_RW ==
    /\ pc = "PowerOff_265"
    /\ RW' = 0 /\ Touch(<<"RW", 0>>)
    /\ Goto("PowerOff_266")
    /\ UNCHANGED <<pwr, E, RS, busDir, dataOut, rest>>

LCD_PowerOff_RS ==
    /\ pc = "PowerOff_266"
    /\ RS' = 0 /\ Touch(<<"RS", 0>>)
    /\ Goto("PowerOff_267")
    /\ UNCHANGED <<pwr, E, RW, busDir, dataOut, rest>>

LCD_PowerOff_Data ==
    /\ pc = "PowerOff_267"
    /\ dataOut' = 0 /\ Touch(<<"data", 0>>)
    /\ Goto("PowerOff_268")
    /\ UNCHANGED <<pwr, E, RW, RS, busDir, rest>>

LCD_PowerOff_E ==
    /\ pc = "PowerOff_268"
    /\ E' = 0 /\ Touch(<<"E", 0>>)
    /\ Return
    /\ UNCHANGED <<pwr, RW, RS, busDir, dataOut, rest>>

(***************************************************************************)
(* Line renderer: LCD_Printf, LCD_vPrintf, LCD_WriteLine, LCD_Puts,        *)
(* LCD_Putc, LCD_GotoXY.                                                   *)
(***************************************************************************)
\* EFM_ASSERT(expr) with a false expr: a debug build (DEBUG_EFM) calls
\* assertEFM(), which never returns; any other build compiles it to nothing.
AssertHalts ==
    /\ violated' = TRUE
    /\ pc' = "halted" /\ UNCHANGED stack

\* LCD_Printf (lineNum, frmt, ...) hands its arguments to LCD_vPrintf.  The
\* inputs are the line, strlen(frmt) and the text vsprintf() makes of them.
Call_LCD_Printf ==
    /\ pc = "idle"
    /\ \E n \in LineNums, fl \in FrmtLens, t \in FormattedTexts :
        /\ Enter("LCD_Printf",
                 [NoArgs EXCEPT !.lineNum = n, !.frmtLen = fl, !.text = t],
                 "vPrintf_320")
        /\ Locals(n, NoBuffer, 0, 0, 0)
        /\ UNCHANGED <<hw, l_flgLCD_IsOn, l_Contrast, xfer>>

\* if (! l_flgLCD_IsOn) return;
LCD_vPrintf_CheckOn ==
    /\ pc = "vPrintf_320"
    /\ IF ~l_flgLCD_IsOn
          THEN Return
          ELSE Goto("vPrintf_323")
    /\ UNCHANGED <<hw, l_flgLCD_IsOn, l_Contrast, loc, xfer, obs>>

\* if (strlen(frmt) > (sizeof(buffer) - 10)) { EFM_ASSERT(0); return; }
LCD_vPrintf_CheckFrmt ==
    /\ pc = "vPrintf_323"
    /\ IF args.frmtLen > BufferSize - 10
          THEN \/ AssertHalts
               \/ Return /\ UNCHANGED violated
          ELSE Goto("vPrintf_329") /\ UNCHANGED violated
    /\ UNCHANGED <<hw, l_flgLCD_IsOn, l_Contrast, loc, xfer,
                   op, args, calls, dropped, latched, trace, busTouched>>

\* vsprintf (buffer, frmt, args);  LCD_WriteLine (lineNum, buffer);
LCD_vPrintf_Format ==
    /\ pc = "vPrintf_329"
    /\ buffer' = MkBuf(args.text)
    /\ Goto("WriteLine_354")
    /\ UNCHANGED <<hw, l_flgLCD_IsOn, l_Contrast, lineNum, len, pStr, chr, gx, gy, ch, i,
                   xfer, obs>>

Call_LCD_WriteLine ==
    /\ pc = "idle"
    /\ \E n \in LineNums, t \in Texts :
        /\ Enter("LCD_WriteLine",
                 [NoArgs EXCEPT !.lineNum = n, !.text = t], "WriteLine_354")
        /\ Locals(n, MkBuf(t), 0, 0, 0)
        /\ UNCHANGED <<hw, l_flgLCD_IsOn, l_Contrast, xfer>>

\* LCD_WriteLine accepting line 0.
LCD_WriteLine_CheckFromZero ==
    /\ pc = "WriteLine_354"
    /\ IF lineNum < 0 \/ lineNum > 2
          THEN \/ AssertHalts
               \/ Return /\ UNCHANGED violated
          ELSE Goto("WriteLine_361") /\ UNCHANGED violated
    /\ UNCHANGED <<hw, l_flgLCD_IsOn, l_Contrast, loc, xfer,
                   op, args, calls, dropped, latched, trace, busTouched>>

\* if (lineNum < 1  ||  lineNum > 2) { EFM_ASSERT(false); return; }
LCD_WriteLine_Check ==
    /\ pc = "WriteLine_354"
    /\ IF lineNum < 1 \/ lineNum > 2
          THEN \/ AssertHalts
               \/ Return /\ UNCHANGED violated
          ELSE Goto("WriteLine_361") /\ UNCHANGED violated
    /\ UNCHANGED <<hw, l_flgLCD_IsOn, l_Contrast, loc, xfer,
                   op, args, calls, dropped, latched, trace, busTouched>>

\* len = strlen (buffer);
LCD_WriteLine_StrLen ==
    /\ pc = "WriteLine_361"
    /\ len' = strlen(buffer)
    /\ Goto("WriteLine_364")
    /\ UNCHANGED <<hw, l_flgLCD_IsOn, l_Contrast, lineNum, buffer, pStr, chr, gx, gy,
                   ch, i, xfer, obs>>

\* if (len > LCD_DIMENSION_X) buffer[LCD_DIMENSION_X] = EOS;
LCD_WriteLine_Truncate ==
    /\ pc = "WriteLine_364"
    /\ buffer' = IF len > LCD_DIMENSION_X
                    THEN [buffer EXCEPT ![LCD_DIMENSION_X + 1] = EOS]
                    ELSE buffer
    /\ Goto("WriteLine_368")
    /\ UNCHANGED <<hw, l_flgLCD_IsOn, l_Contrast, lineNum, len, pStr, chr, gx, gy,
                   ch, i, xfer, obs>>

\* LCD_WriteLine padding with the terminator instead of a space.
LCD_WriteLine_PadEOS ==
    /\ pc = "WriteLine_368"
    /\ len < LCD_DIMENSION_X
    /\ buffer' = [buffer EXCEPT ![len + 1] = EOS]
    /\ len' = len + 1
    /\ Goto("WriteLine_368")
    /\ UNCHANGED <<hw, l_flgLCD_IsOn, l_Contrast, lineNum, pStr, chr, gx, gy,
                   ch, i, xfer, obs>>

\* while (len < LCD_DIMENSION_X) buffer[len++] = ' ';
LCD_WriteLine_Pad ==
    /\ pc = "WriteLine_368"
    /\ len < LCD_DIMENSION_X
    /\ buffer' = [buffer EXCEPT ![len + 1] = 32]
    /\ len' = len + 1
    /\ Goto("WriteLine_368")
    /\ UNCHANGED <<hw, l_flgLCD_IsOn, l_Contrast, lineNum, pStr, chr, gx, gy,
                   ch, i, xfer, obs>>

\* LCD_WriteLine terminating the line one character early.
LCD_WriteLine_TerminateEarly ==
    /\ pc = "WriteLine_368"
    /\ ~(len < LCD_DIMENSION_X)
    /\ buffer' = [buffer EXCEPT ![LCD_DIMENSION_X] = EOS]
    /\ len' = 0
    /\ Goto("WriteLine_374")
    /\ UNCHANGED <<hw, l_flgLCD_IsOn, l_Contrast, lineNum, pStr, chr, gx, gy,
                   ch, i, xfer, obs>>

\* The loop ends: buffer[LCD_DIMENSION_X] = EOS;
LCD_WriteLine_Terminate ==
    /\ pc = "WriteLine_368"
    /\ ~(len < LCD_DIMENSION_X)
    /\ buffer' = [buffer EXCEPT ![LCD_DIMENSION_X + 1] = EOS]
    /\ len' = 0
    /\ Goto("WriteLine_374")
    /\ UNCHANGED <<hw, l_flgLCD_IsOn, l_Contrast, lineNum, pStr, chr, gx, gy,
                   ch, i, xfer, obs>>

\* LCD_GotoXY (0, lineNum - 1);
LCD_WriteLine_GotoXY ==
    /\ pc = "WriteLine_374"
    /\ gx' = 0 /\ gy' = U8(lineNum - 1)
    /\ pc' = "GotoXY_436" /\ stack' = <<"WriteLine_377">> \o stack
    /\ UNCHANGED <<hw, l_flgLCD_IsOn, l_Contrast, lineNum, buffer, len, pStr, chr,
                   ch, i, xfer, obs>>

\* LCD_Puts (buffer);
LCD_WriteLine_Puts ==
    /\ pc = "WriteLine_377"
    /\ pStr' = 0
    /\ Goto("Puts_393")
    /\ UNCHANGED <<hw, l_flgLCD_IsOn, l_Contrast, lineNum, buffer, len, chr, gx, gy,
                   ch, i, xfer, obs>>

Call_LCD_Puts ==
    /\ pc = "idle"
    /\ \E t \in PutsTexts :
        /\ Enter("LCD_Puts", [NoArgs EXCEPT !.text = t], "Puts_393")
        /\ Locals(0, MkBuf(t), 0, 0, 0)
        /\ UNCHANGED <<hw, l_flgLCD_IsOn, l_Contrast, xfer>>

\* while (*pStr != EOS) LCD_Putc (*pStr++);
LCD_Puts_Loop ==
    /\ pc = "Puts_393"
    /\ IF buffer[pStr + 1] # EOS
          THEN /\ chr' = buffer[pStr + 1]
               /\ pStr' = pStr + 1
               /\ pc' = "Putc_411" /\ stack' = <<"Puts_393">> \o stack
          ELSE /\ pStr' = 0
               /\ Return
               /\ UNCHANGED chr
    /\ UNCHANGED <<hw, l_flgLCD_IsOn, l_Contrast, lineNum, buffer, len, gx, gy,
                   ch, i, xfer, obs>>

Call_LCD_Putc ==
    /\ pc = "idle"
    /\ \E c \in Chars :
        /\ Enter("LCD_Putc", [NoArgs EXCEPT !.chr = c], "Putc_411")
        /\ Locals(0, NoBuffer, c, 0, 0)
        /\ UNCHANGED <<hw, l_flgLCD_IsOn, l_Contrast, xfer>>

\* LCD_Putc without the test of the flag.
LCD_Putc_Unguarded ==
    /\ pc = "Putc_411"
    /\ JumpDataWrite(chr)
    /\ chr' = 0
    /\ UNCHANGED <<hw, l_flgLCD_IsOn, l_Contrast, lineNum, buffer, len, pStr, gx, gy,
                   ch, i, wi, status, timeout,
                   op, args, dropped, latched, busTouched, violated>>

\* if (l_flgLCD_IsOn) DataWrite (c);
LCD_Putc ==
    /\ pc = "Putc_411"
    /\ IF l_flgLCD_IsOn
          THEN JumpDataWrite(chr)
          ELSE /\ Return
               /\ UNCHANGED <<arg, calls, trace>>
    /\ chr' = 0
    /\ UNCHANGED <<hw, l_flgLCD_IsOn, l_Contrast, lineNum, buffer, len, pStr, gx, gy,
                   ch, i, wi, status, timeout,
                   op, args, dropped, latched, busTouched, violated>>

Call_LCD_GotoXY ==
    /\ pc = "idle"
    /\ \E x \in XCoords, y \in YCoords :
        /\ Enter("LCD_GotoXY", [NoArgs EXCEPT !.x = x, !.y = y], "GotoXY_436")
        /\ Locals(0, NoBuffer, 0, x, y)
        /\ UNCHANGED <<hw, l_flgLCD_IsOn, l_Contrast, xfer>>

\* if (! l_flgLCD_IsOn) return;
LCD_GotoXY_CheckOn ==
    /\ pc = "GotoXY_436"
    /\ IF ~l_flgLCD_IsOn
          THEN /\ Return
               /\ gx' = 0 /\ gy' = 0
          ELSE /\ Goto("GotoXY_439")
               /\ UNCHANGED <<gx, gy>>
    /\ UNCHANGED <<hw, l_flgLCD_IsOn, l_Contrast, lineNum, buffer, len, pStr, chr,
                   ch, i, xfer, obs>>

\* EFM_ASSERT (x < LCD_DIMENSION_X  &&  y < LCD_DIMENSION_Y);
LCD_GotoXY_Assert ==
    /\ pc = "GotoXY_439"
    /\ IF gx < LCD_DIMENSION_X /\ gy < LCD_DIMENSION_Y
          THEN Goto("GotoXY_441") /\ UNCHANGED violated
          ELSE \/ AssertHalts
               \/ Goto("GotoXY_441") /\ UNCHANGED violated
    /\ UNCHANGED <<hw, l_flgLCD_IsOn, l_Contrast, loc, xfer,
                   op, args, calls, dropped, latched, trace, busTouched>>

\* LCD_GotoXY with the coordinates swapped in the address.
LCD_GotoXY_SetAddrSwapped ==
    /\ pc = "GotoXY_441"
    /\ JumpCmdWrite(BitOr(LCD_CMD_SET_DDRAM_ADDR, U8((gx * 64) + gy)))
    /\ gx' = 0 /\ gy' = 0
    /\ UNCHANGED <<hw, l_flgLCD_IsOn, l_Contrast, lineNum, buffer, len, pStr, chr,
                   ch, i, wi, status, timeout,
                   op, args, dropped, latched, busTouched, violated>>

\* addr = (y * 0x40) + x;  CmdWrite (LCD_CMD_SET_DDRAM_ADDR | addr);
LCD_GotoXY_SetAddr ==
    /\ pc = "GotoXY_441"
    /\ JumpCmdWrite(BitOr(LCD_CMD_SET_DDRAM_ADDR, U8((gy * 64) + gx)))
    /\ gx' = 0 /\ gy' = 0
    /\ UNCHANGED <<hw, l_flgLCD_IsOn, l_Contrast, lineNum, buffer, len, pStr, chr,
                   ch, i, wi, status, timeout,
                   op, args, dropped, latched, busTouched, violated>>

(***************************************************************************)
(* The driver used from one execution context: the public operations are   *)
(* called one after another.                                               *)
(***************************************************************************)
Next ==
    \/ Call_LCD_Init \/ LCD_Init
    \/ Call_LCD_PowerOn
    \/ LCD_PowerOn_PinE \/ LCD_PowerOn_PinRW \/ LCD_PowerOn_PinRS
    \/ LCD_PowerOn_DataClear \/ LCD_PowerOn_Power \/ LCD_PowerOn_Settle
    \/ LCD_PowerOn_FctSetIS1 \/ LCD_PowerOn_Bias \/ LCD_PowerOn_Booster
    \/ LCD_PowerOn_Follower \/ LCD_PowerOn_Contrast \/ LCD_PowerOn_FctSetIS0
    \/ LCD_PowerOn_SetCGRAM \/ LCD_PowerOn_Glyph \/ LCD_PowerOn_NextCh
    \/ LCD_PowerOn_DisplayOn \/ LCD_PowerOn_Clear \/ LCD_PowerOn_EntryMode
    \/ LCD_PowerOn_SetOn
    \/ Call_LCD_PowerOff
    \/ LCD_PowerOff_ClearOn \/ LCD_PowerOff_Power \/ LCD_PowerOff_ModeOut
    \/ LCD_PowerOff_RW \/ LCD_PowerOff_RS \/ LCD_PowerOff_Data
    \/ LCD_PowerOff_E
    \/ Call_LCD_Printf
    \/ LCD_vPrintf_CheckOn \/ LCD_vPrintf_CheckFrmt \/ LCD_vPrintf_Format
    \/ Call_LCD_WriteLine
    \/ LCD_WriteLine_Check \/ LCD_WriteLine_StrLen \/ LCD_WriteLine_Truncate
    \/ LCD_WriteLine_Pad \/ LCD_WriteLine_Terminate \/ LCD_WriteLine_GotoXY
    \/ LCD_WriteLine_Puts
    \/ Call_LCD_Puts \/ LCD_Puts_Loop
    \/ Call_LCD_Putc \/ LCD_Putc
    \/ Call_LCD_GotoXY
    \/ LCD_GotoXY_CheckOn \/ LCD_GotoXY_Assert \/ LCD_GotoXY_SetAddr
    \/ BusyRead_ModeIn \/ BusyRead_RW \/ BusyRead_RS \/ BusyRead_E1
    \/ BusyRead_Tick \/ BusyRead_Sample \/ BusyRead_E0
    \/ WaitCtrlReady_Loop \/ WaitCtrlReady_Test \/ WaitCtrlReady_Delay
    \/ CmdWrite_Wait \/ CmdWrite_Check
    \/ CmdWrite_ModeOut \/ CmdWrite_RW \/ CmdWrite_RS \/ CmdWrite_Data
    \/ CmdWrite_E1 \/ CmdWrite_Tick \/ CmdWrite_E0
    \/ DataWrite_Wait \/ DataWrite_Check
    \/ DataWrite_ModeOut \/ DataWrite_RW \/ DataWrite_RS \/ DataWrite_Data
    \/ DataWrite_E1 \/ DataWrite_Tick \/ DataWrite_E0

Spec == Init /\ [][Next]_vars

(***************************************************************************)
(* The driver used from two execution contexts: an interrupt handler that  *)
(* calls LCD_PowerOff preempts a write or cursor operation between any two *)
(* of its steps and runs to its end before the operation resumes.          *)
(***************************************************************************)
PowerOffPcs == {"PowerOff_255", "PowerOff_258", "PowerOff_264",
                "PowerOff_265", "PowerOff_266", "PowerOff_267",
                "PowerOff_268"}

Interrupt_LCD_PowerOff ==
    /\ op \in {"LCD_Putc", "LCD_Puts", "LCD_GotoXY", "LCD_Printf",
               "LCD_WriteLine"}
    /\ pc \notin {"idle", "halted"} \cup PowerOffPcs
    /\ l_flgLCD_IsOn
    /\ pc' = "PowerOff_255" /\ stack' = <<pc>> \o stack
    /\ UNCHANGED <<hw, l_flgLCD_IsOn, l_Contrast, loc, xfer, obs>>

\* The operations of this use: LCD_PowerOn switches the display on,
\* LCD_Puts, LCD_Putc and LCD_GotoXY write, and the handler switches it off.
NextIrq ==
    \/ Call_LCD_PowerOn
    \/ LCD_PowerOn_PinE \/ LCD_PowerOn_PinRW \/ LCD_PowerOn_PinRS
    \/ LCD_PowerOn_DataClear \/ LCD_PowerOn_Power \/ LCD_PowerOn_Settle
    \/ LCD_PowerOn_FctSetIS1 \/ LCD_PowerOn_Bias \/ LCD_PowerOn_Booster
    \/ LCD_PowerOn_Follower \/ LCD_PowerOn_Contrast \/ LCD_PowerOn_FctSetIS0
    \/ LCD_PowerOn_SetCGRAM \/ LCD_PowerOn_Glyph \/ LCD_PowerOn_NextCh
    \/ LCD_PowerOn_DisplayOn \/ LCD_PowerOn_Clear \/ LCD_PowerOn_EntryMode
    \/ LCD_PowerOn_SetOn
    \/ Interrupt_LCD_PowerOff
    \/ LCD_PowerOff_ClearOn \/ LCD_PowerOff_Power \/ LCD_PowerOff_ModeOut
    \/ LCD_PowerOff_RW \/ LCD_PowerOff_RS \/ LCD_PowerOff_Data
    \/ LCD_PowerOff_E
    \/ Call_LCD_Puts \/ LCD_Puts_Loop
    \/ Call_LCD_Putc \/ LCD_Putc
    \/ Call_LCD_GotoXY
    \/ LCD_GotoXY_CheckOn \/ LCD_GotoXY_Assert \/ LCD_GotoXY_SetAddr
    \/ BusyRead_ModeIn \/ BusyRead_RW \/ BusyRead_RS \/ BusyRead_E1
    \/ BusyRead_Tick \/ BusyRead_Sample \/ BusyRead_E0
    \/ WaitCtrlReady_Loop \/ WaitCtrlReady_Test \/ WaitCtrlReady_Delay
    \/ CmdWrite_Wait \/ CmdWrite_Check
    \/ CmdWrite_ModeOut \/ CmdWrite_RW \/ CmdWrite_RS \/ CmdWrite_Data
    \/ CmdWrite_E1 \/ CmdWrite_Tick \/ CmdWrite_E0
    \/ DataWrite_Wait \/ DataWrite_Check
    \/ DataWrite_ModeOut \/ DataWrite_RW \/ DataWrite_RS \/ DataWrite_Data
    \/ DataWrite_E1 \/ DataWrite_Tick \/ DataWrite_E0

SpecIrq == Init /\ [][NextIrq]_vars

(***************************************************************************)
(* The driver with a controller whose busy flag may stay set forever, and  *)
(* a processor that keeps executing the operation it has been called for.  *)
(***************************************************************************)
\* READ_LCD_DATA() of a controller that may hang: as in BusyRead_Sample it
\* lets at most MaxTimeouts transfers of an operation time out at any
\* place, or its busy flag is set from the first poll of the operation on;
\* once more than MaxTimeouts transfers have timed out it stays set.
BusyRead_SampleStuck ==
    /\ pc = "BusyRead_468"
    /\ \E v \in StatusVals :
          /\ (v >= 128 /\ wi + 1 >= LCD_WAIT_READY_TIMEOUT)
                => (dropped < MaxTimeouts \/ dropped = Len(calls) - 1)
          /\ (v < 128) => dropped <= MaxTimeouts
          /\ status' = v
          /\ Touch(<<"read", v \div 128>>)
    /\ Goto("BusyRead_470")
    /\ UNCHANGED <<hw, l_flgLCD_IsOn, l_Contrast, loc, arg, wi, timeout,
                   op, args, calls, dropped, latched, violated>>

\* The statements of the operations.
StepLive ==
    \/ LCD_PowerOn_PinE \/ LCD_PowerOn_PinRW \/ LCD_PowerOn_PinRS
    \/ LCD_PowerOn_DataClear \/ LCD_PowerOn_Power \/ LCD_PowerOn_Settle
    \/ LCD_PowerOn_FctSetIS1 \/ LCD_PowerOn_Bias \/ LCD_PowerOn_Booster
    \/ LCD_PowerOn_Follower \/ LCD_PowerOn_Contrast \/ LCD_PowerOn_FctSetIS0
    \/ LCD_PowerOn_SetCGRAM \/ LCD_PowerOn_Glyph \/ LCD_PowerOn_NextCh
    \/ LCD_PowerOn_DisplayOn \/ LCD_PowerOn_Clear \/ LCD_PowerOn_EntryMode
    \/ LCD_PowerOn_SetOn
    \/ LCD_PowerOff_ClearOn \/ LCD_PowerOff_Power \/ LCD_PowerOff_ModeOut
    \/ LCD_PowerOff_RW \/ LCD_PowerOff_RS \/ LCD_PowerOff_Data
    \/ LCD_PowerOff_E
    \/ LCD_WriteLine_Check \/ LCD_WriteLine_StrLen \/ LCD_WriteLine_Truncate
    \/ LCD_WriteLine_Pad \/ LCD_WriteLine_Terminate \/ LCD_WriteLine_GotoXY
    \/ LCD_WriteLine_Puts
    \/ LCD_Puts_Loop \/ LCD_Putc
    \/ LCD_GotoXY_CheckOn \/ LCD_GotoXY_Assert \/ LCD_GotoXY_SetAddr
    \/ BusyRead_ModeIn \/ BusyRead_RW \/ BusyRead_RS \/ BusyRead_E1
    \/ BusyRead_Tick \/ BusyRead_SampleStuck \/ BusyRead_E0
    \/ WaitCtrlReady_Loop \/ WaitCtrlReady_Test \/ WaitCtrlReady_Delay
    \/ CmdWrite_Wait \/ CmdWrite_Check
    \/ CmdWrite_ModeOut \/ CmdWrite_RW \/ CmdWrite_RS \/ CmdWrite_Data
    \/ CmdWrite_E1 \/ CmdWrite_Tick \/ CmdWrite_E0
    \/ DataWrite_Wait \/ DataWrite_Check
    \/ DataWrite_ModeOut \/ DataWrite_RW \/ DataWrite_RS \/ DataWrite_Data
    \/ DataWrite_E1 \/ DataWrite_Tick \/ DataWrite_E0

\* LCD_WriteLine called with the empty, a short and the longest text.
Call_LCD_WriteLine_Few ==
    /\ pc = "idle"
    /\ \E n \in LineNums, t \in PutsTexts :
        /\ Enter("LCD_WriteLine",
                 [NoArgs EXCEPT !.lineNum = n, !.text = t], "WriteLine_354")
        /\ Locals(n, MkBuf(t), 0, 0, 0)
        /\ UNCHANGED <<hw, l_flgLCD_IsOn, l_Contrast, xfer>>

\* The calls of the operations.
CallLive ==
    \/ Call_LCD_PowerOn \/ Call_LCD_PowerOff \/ Call_LCD_WriteLine_Few
    \/ Call_LCD_Puts \/ Call_LCD_Putc \/ Call_LCD_GotoXY

NextLive == CallLive \/ StepLive

SpecLive == Init /\ [][NextLive]_vars /\ WF_vars(StepLive)

(***************************************************************************)
(* LCD_PowerOn of the driver built with each contrast value.               *)
(***************************************************************************)
\* LCD_PowerOn is called while the display is off.
Call_LCD_PowerOn_WhenOff ==
    /\ ~l_flgLCD_IsOn
    /\ Call_LCD_PowerOn

NextContrast ==
    \/ Call_LCD_PowerOn_WhenOff
    \/ LCD_PowerOn_PinE \/ LCD_PowerOn_PinRW \/ LCD_PowerOn_PinRS
    \/ LCD_PowerOn_DataClear \/ LCD_PowerOn_Power \/ LCD_PowerOn_Settle
    \/ LCD_PowerOn_FctSetIS1 \/ LCD_PowerOn_Bias \/ LCD_PowerOn_Booster
    \/ LCD_PowerOn_Follower \/ LCD_PowerOn_Contrast \/ LCD_PowerOn_FctSetIS0
    \/ LCD_PowerOn_SetCGRAM \/ LCD_PowerOn_Glyph \/ LCD_PowerOn_NextCh
    \/ LCD_PowerOn_DisplayOn \/ LCD_PowerOn_Clear \/ LCD_PowerOn_EntryMode
    \/ LCD_PowerOn_SetOn
    \/ BusyRead_ModeIn \/ BusyRead_RW \/ BusyRead_RS \/ BusyRead_E1
    \/ BusyRead_Tick \/ BusyRead_Sample \/ BusyRead_E0
    \/ WaitCtrlReady_Loop \/ WaitCtrlReady_Test \/ WaitCtrlReady_Delay
    \/ CmdWrite_Wait \/ CmdWrite_Check
    \/ CmdWrite_ModeOut \/ CmdWrite_RW \/ CmdWrite_RS \/ CmdWrite_Data
    \/ CmdWrite_E1 \/ CmdWrite_Tick \/ CmdWrite_E0
    \/ DataWrite_Wait \/ DataWrite_Check
    \/ DataWrite_ModeOut \/ DataWrite_RW \/ DataWrite_RS \/ DataWrite_Data
    \/ DataWrite_E1 \/ DataWrite_Tick \/ DataWrite_E0

SpecContrast == InitContrast /\ [][NextContrast]_vars

(***************************************************************************)
(* Properties.                                                             *)
(***************************************************************************)
Renderers == {"LCD_Putc", "LCD_Puts", "LCD_GotoXY", "LCD_Printf",
              "LCD_WriteLine"}

Cmd(b) == [fn |-> "CmdWrite", byte |-> b]
Data(b) == [fn |-> "DataWrite", byte |-> b]

IsPrefix(s, t) == Len(s) <= Len(t) /\ SubSeq(t, 1, Len(s)) = s

\* The operation has returned to its caller.
Returned(name) == op = name /\ pc = "idle"

\* C1: while the display-on flag is false, LCD_Putc, LCD_Puts, LCD_GotoXY,
\* LCD_Printf and LCD_WriteLine, with any arguments, perform no bus
\* transfer: no CmdWrite or DataWrite call, no status poll, no enable pulse,
\* and no write to a control line, the bus direction or the data bus.
C1_OffIsNoOp ==
    (op \in Renderers /\ ~args.on) =>
        /\ ~l_flgLCD_IsOn
        /\ calls = <<>> /\ trace = <<>> /\ ~busTouched
        /\ latched = 0 /\ dropped = 0
        /\ E = 0

\* LCD_WriteLine on a valid line has returned with the display off, after
\* the display had been on.
C1_Witness ==
    /\ Returned("LCD_WriteLine") /\ ~args.on
    /\ args.lineNum \in {1, 2} /\ Len(args.text) = MaxTextLen
    /\ busDir = "out"

\* C2: in every state reachable by public operations called one after
\* another, the enable line E is asserted only while the power-enable pin
\* is high.
C2_NoTransferUnpowered == (E = 1) => (pwr = 1)

\* E is asserted for the latch of a character of LCD_Putc.
C2_Witness ==
    /\ op = "LCD_Putc" /\ pc = "DataWrite_594"
    /\ E = 1 /\ RW = 0 /\ pwr = 1

PowerOffTrace ==
    << <<"on", 0>>, <<"pwr", 0>>, <<"dir", 1>>, <<"RW", 0>>, <<"RS", 0>>,
       <<"data", 0>>, <<"E", 0>> >>

\* C3: in the trace of an LCD_PowerOff call the write on = false comes
\* first: it precedes the deassertion of power-enable and every write to
\* the bus direction, RW, RS, the data bus and E.
C3_FlagClearedFirst ==
    (op = "LCD_PowerOff") =>
        /\ trace # <<>> => trace[1] = <<"on", 0>>
        /\ \A k \in 2..Len(trace) :
              trace[k][1] \in {"pwr", "dir", "RW", "RS", "data", "E"}
        /\ busTouched => ~l_flgLCD_IsOn
        /\ IsPrefix(trace, PowerOffTrace)

\* LCD_PowerOff has returned after switching off a display that was on.
C3_Witness ==
    /\ Returned("LCD_PowerOff") /\ args.on
    /\ trace = PowerOffTrace /\ pwr = 0

\* One poll of a busy controller by WaitCtrlReady.
BusyPoll ==
    << <<"dir", 0>>, <<"RW", 1>>, <<"RS", 0>>, <<"E", 1>>, <<"tick", 0>>,
       <<"read", 1>>, <<"E", 0>>, <<"tick", 0>> >>

RECURSIVE Repeat(_, _)
Repeat(s, n) == IF n = 0 THEN <<>> ELSE s \o Repeat(s, n - 1)

\* The bus accesses of a transfer that times out.
TimeoutTrace == Repeat(BusyPoll, LCD_WAIT_READY_TIMEOUT)

BusyPolls(tr) == Cardinality({k \in DOMAIN tr : tr[k] = <<"read", 1>>})

\* C4: a CmdWrite or DataWrite whose WaitCtrlReady saw the busy flag set in
\* every poll of its budget does nothing after the polls: the bus is not
\* switched to output, no value is put on the data bus and E is not pulsed
\* for the byte.  The byte is not retried (every byte handed to CmdWrite or
\* DataWrite is latched once or dropped) and no error is signaled.
C4_TimeoutSkipsWrite ==
    /\ BusyPolls(trace) >= LCD_WAIT_READY_TIMEOUT =>
          \/ IsPrefix(trace, TimeoutTrace)
          \/ trace = Append(TimeoutTrace, <<"on", 1>>)
    /\ latched + dropped <= Len(calls)
    /\ pc = "idle" => latched + dropped = Len(calls)
    /\ dropped > 0 => ~violated

\* LCD_GotoXY has returned after its command was dropped by a timeout.
C4_Witness ==
    /\ Returned("LCD_GotoXY") /\ args.on
    /\ dropped = 1 /\ latched = 0 /\ Len(calls) = 1
    /\ trace = TimeoutTrace

\* The width characters of a line: the text cut after width characters, or
\* followed by spaces (0x20) up to the width.
Line(text) ==
    [k \in 1..LCD_DIMENSION_X |-> IF k <= Len(text) THEN text[k] ELSE 32]

\* One set-address command for the first column of line n (0x80 | (n-1)*0x40),
\* then the characters of the line as data writes.
WriteLineStream(n, text) ==
    <<Cmd(BitOr(128, (n - 1) * 64))>> \o
    [k \in 1..LCD_DIMENSION_X |-> Data(Line(text)[k])]

\* A LCD_WriteLine call on a valid line with the display on.
ValidWriteLine ==
    op = "LCD_WriteLine" /\ args.on /\ args.lineNum \in {1, 2}

\* While E is asserted for a write, the bus carries the byte of the last
\* CmdWrite or DataWrite call, with RS = 0 for a command and 1 for data.
LatchesLastCall ==
    (E = 1 /\ RW = 0) =>
        /\ calls # <<>>
        /\ busDir = "out"
        /\ dataOut = calls[Len(calls)].byte
        /\ RS = (IF calls[Len(calls)].fn = "DataWrite" THEN 1 ELSE 0)
        /\ latched + dropped = Len(calls)

\* C5: with the display on, a line number n in {1, 2} and a controller that
\* is ready within the budget for every transfer, LCD_WriteLine(n, text)
\* puts on the wire exactly the command 0x80 | ((n-1)*0x40) followed by
\* exactly 16 data writes: the first 16 characters of a longer text, or the
\* text followed by spaces up to 16 characters, for every text length.
C5_WriteLineStream ==
    (ValidWriteLine /\ dropped = 0) =>
        /\ IsPrefix(calls, WriteLineStream(args.lineNum, args.text))
        /\ LatchesLastCall
        /\ pc = "idle" =>
              /\ calls = WriteLineStream(args.lineNum, args.text)
              /\ latched = LCD_DIMENSION_X + 1

\* A text longer than the line has been written to line 2 without timeout.
C5_Witness ==
    /\ Returned("LCD_WriteLine") /\ args.on /\ dropped = 0
    /\ args.lineNum = 2 /\ Len(args.text) > LCD_DIMENSION_X
    /\ latched = LCD_DIMENSION_X + 1
    /\ calls[1] = Cmd(192) /\ calls[LCD_DIMENSION_X + 1] = Data(65)

\* C6 as stated: every LCD_WriteLine call that passes the line-number check
\* with the display on latches the set-address command and exactly 16 data
\* bytes into the controller.
C6_AlwaysFullLine ==
    (ValidWriteLine /\ pc = "idle") => latched = LCD_DIMENSION_X + 1

\* C6 amended: every LCD_WriteLine call that passes the line-number check
\* with the display on makes its buffer exactly 16 characters and hands to
\* the transfer functions one set-address command for the first column of
\* the line and then exactly 16 data bytes; each of them is latched, except
\* the ones abandoned by a busy-flag timeout, which are dropped.
C6_FullLineUnlessTimeout ==
    (ValidWriteLine /\ pc = "idle") =>
        /\ strlen(buffer) = LCD_DIMENSION_X
        /\ Len(calls) = LCD_DIMENSION_X + 1
        /\ calls[1] = Cmd(BitOr(128, (args.lineNum - 1) * 64))
        /\ \A k \in 2..Len(calls) : calls[k] = Data(buffer[k - 1])
        /\ latched = LCD_DIMENSION_X + 1 - dropped

\* A short text has been written to line 1 and one of its transfers was
\* abandoned by a timeout.
C6_Witness ==
    /\ Returned("LCD_WriteLine") /\ args.on
    /\ args.lineNum = 1 /\ Len(args.text) = 1
    /\ dropped = 1 /\ latched = LCD_DIMENSION_X

\* A LCD_GotoXY call with the display on.
GotoXYOn == op = "LCD_GotoXY" /\ args.on

InRange(x, y) == x < LCD_DIMENSION_X /\ y < LCD_DIMENSION_Y

\* C7: with the display on, for 0 <= x < 16 and 0 <= y < 2, LCD_GotoXY(x, y)
\* issues exactly one command, the byte 0x80 | (y*0x40 + x), and no data
\* write.
C7_GotoXYAddress ==
    (GotoXYOn /\ InRange(args.x, args.y)) =>
        /\ IsPrefix(calls, <<Cmd(BitOr(128, (args.y * 64) + args.x))>>)
        /\ LatchesLastCall
        /\ ~violated
        /\ pc = "idle" =>
              /\ calls = <<Cmd(BitOr(128, (args.y * 64) + args.x))>>
              /\ latched + dropped = 1

\* The cursor has been set to the last column of the second line.
C7_Witness ==
    /\ Returned("LCD_GotoXY") /\ args.on
    /\ args.x = 15 /\ args.y = 1
    /\ latched = 1 /\ dataOut = 207

\* C8: with the display on, LCD_GotoXY with x >= 16 or y >= 2 issues no
\* command to the controller and touches no bus line, and when it returns
\* (a build whose assertion does not halt) it has made no bus transfer.
C8_OutOfRangeIssuesNothing ==
    (GotoXYOn /\ ~InRange(args.x, args.y)) =>
        /\ calls = <<>> /\ latched = 0
        /\ ~busTouched

\* C9: for every line number outside {1, 2}, LCD_WriteLine reaches its
\* assertion (which halts a debug build) and otherwise returns at once: it
\* calls no CmdWrite and no DataWrite, touches no bus line, and leaves the
\* caller's buffer and the display-on flag as they were, with the display
\* on or off.
C9_BadLineRejected ==
    (op = "LCD_WriteLine" /\ args.lineNum \notin {1, 2}) =>
        /\ calls = <<>> /\ latched = 0 /\ ~busTouched
        /\ buffer = MkBuf(args.text)
        /\ l_flgLCD_IsOn = args.on
        /\ pc \in {"WriteLine_354", "halted", "idle"}
        /\ violated <=> pc = "halted"

\* LCD_WriteLine has returned from line 3 with the display on.
C9_Witness ==
    /\ Returned("LCD_WriteLine") /\ args.on
    /\ args.lineNum = 3 /\ Len(args.text) = 2
    /\ ~violated

\* The commands of instruction table 1: function set selecting table 1
\* (0x39), bias (0x14), booster with contrast bits 5:4 (0x54 | c >> 4),
\* follower (0x6D), contrast bits 3:0 (0x70 | c & 0x0F).
Table1Stream ==
    << Cmd(57), Cmd(20), Cmd(BitOr(84, l_Contrast \div 16)), Cmd(109),
       Cmd(BitOr(112, l_Contrast % 16)) >>

\* The upload of one glyph: the CGRAM address of its slot, then its 8 rows.
GlyphStream(slot) ==
    <<Cmd(BitOr(64, slot * 8))>> \o
    [r \in 1..8 |-> Data(l_CustChar[slot + 1][r])]

RECURSIVE GlyphsFrom(_)
GlyphsFrom(slot) ==
    IF slot > 7 THEN <<>> ELSE GlyphStream(slot) \o GlyphsFrom(slot + 1)

\* Table 1, the function set selecting the base table (0x38), the 8 glyphs,
\* display on (0x0C), clear display (0x01), entry mode (0x06).
InitStream ==
    Table1Stream \o <<Cmd(56)>> \o GlyphsFrom(0) \o
    <<Cmd(12), Cmd(1), Cmd(6)>>

\* C10: in the transfers LCD_PowerOn issues, the five commands of
\* instruction table 1 come before the function set that selects the base
\* table, which comes before the glyph upload, display on, clear display
\* and entry mode; the glyph upload is 8 commands 0x40 | (slot << 3) for
\* slot 0..7 in ascending order, each followed at once by exactly the 8 row
\* bytes of that slot in row order.
C10_InitOrder ==
    (op \in {"LCD_Init", "LCD_PowerOn"}) =>
        /\ IsPrefix(calls, InitStream)
        /\ LatchesLastCall
        /\ pc = "idle" =>
              /\ calls = InitStream
              /\ latched + dropped = Len(InitStream)

\* LCD_PowerOn has returned with every transfer latched.
C10_Witness ==
    /\ Returned("LCD_PowerOn") /\ l_flgLCD_IsOn
    /\ Len(calls) = 81 /\ latched = 81
    /\ calls[70] = Cmd(120) /\ calls[78] = Data(0)

PowerOps == {"LCD_Init", "LCD_PowerOn"}

\* C11: the display-on flag is false initially, and in every state where
\* LCD_PowerOn has set it, all 81 initialization transfers of that call
\* (17 commands and the 64 glyph bytes) were latched into the controller,
\* none abandoned by a timeout; the flag is not set before the entry mode
\* command has been issued.
C11_OnOnlyAfterFullInit ==
    /\ op = "none" => ~l_flgLCD_IsOn
    /\ (op \in PowerOps /\ l_flgLCD_IsOn /\ (pc = "idle" \/ ~args.on)) =>
          /\ calls = InitStream
          /\ latched = Len(InitStream) /\ dropped = 0

\* A step that accesses the bus: it writes a GPIO register or samples the
\* data bus.
BusAccessStep ==
    /\ Len(trace') = Len(trace) + 1
    /\ trace'[Len(trace')][1] \in
          {"pwr", "dir", "RW", "RS", "data", "E", "read"}

\* C12: when LCD_PowerOff preempts LCD_Putc, LCD_Puts, LCD_GotoXY,
\* LCD_Printf or LCD_WriteLine between any two of its steps, the preempted
\* operation makes no further bus access once the flag is false: it does not
\* assert E, switch the bus direction or drive RW, RS or the data bus after
\* power-enable was deasserted.
C12_WritersStopAfterOff ==
    [][(op \in Renderers /\ ~l_flgLCD_IsOn /\ pc \notin PowerOffPcs)
          => ~BusAccessStep]_vars

\* The status polls in the trace of the current transfer.
Polls(tr) == Cardinality({k \in DOMAIN tr : tr[k][1] = "read"})

Finished == pc \in {"idle", "halted"}

\* C13: whatever the controller answers, also when its busy flag stays set
\* forever, every call of LCD_PowerOn, LCD_PowerOff, LCD_WriteLine, LCD_Puts,
\* LCD_Putc and LCD_GotoXY comes to its end (it returns, or a debug build
\* stops in the assertion of a contract violation), and it polls the status
\* at most LCD_WAIT_READY_TIMEOUT times for each transfer it attempts, and
\* not at all outside a transfer.
C13_Terminates ==
    /\ [](/\ Polls(trace) <= LCD_WAIT_READY_TIMEOUT
          /\ calls = <<>> => Polls(trace) = 0
          /\ pc = "halted" => violated)
    /\ (~Finished) ~> Finished

\* LCD_Puts has returned from a text of which every character was abandoned
\* by a controller that stayed busy.
C13_Witness ==
    /\ Returned("LCD_Puts") /\ args.on
    /\ Len(calls) = MaxTextLen /\ dropped = MaxTextLen /\ latched = 0
    /\ trace = TimeoutTrace

\* The assertions of E in a trace, and the answer of its last status poll.
Enables(tr) == Cardinality({k \in DOMAIN tr : tr[k] = <<"E", 1>>})

LastPollOf(tr) ==
    LET ks == {k \in DOMAIN tr : tr[k][1] = "read"}
    IN  tr[CHOOSE k \in ks : \A j \in ks : j <= k][2]

\* C14: every write latch (E asserted with RW = 0 in CmdWrite or DataWrite)
\* comes, within the same CmdWrite or DataWrite call and with no other
\* latch in between, after a status read with bit 7 clear; no byte is
\* latched after a status read that showed busy.
C14_LatchAfterReady ==
    /\ Enables(trace) <= Polls(trace) + 1
    /\ (Enables(trace) = Polls(trace) + 1 /\ RW = 0) =>
          /\ Polls(trace) >= 1
          /\ LastPollOf(trace) = 0
          /\ pc \notin {"CmdWrite_521", "DataWrite_585"}
    /\ (E = 1 /\ RW = 0) =>
          /\ Enables(trace) = Polls(trace) + 1
          /\ trace[Len(trace)][1] \in {"E", "tick"}
          /\ pc \in {"CmdWrite_530", "CmdWrite_531",
                     "DataWrite_594", "DataWrite_595"}

\* A character of LCD_Puts is being latched after the controller was busy
\* at the first poll and ready at the second.
C14_Witness ==
    /\ op = "LCD_Puts" /\ pc = "DataWrite_594"
    /\ E = 1 /\ RW = 0 /\ RS = 1
    /\ Polls(trace) = 2 /\ BusyPolls(trace) = 1

\* One poll of a ready controller by WaitCtrlReady.
ReadyPoll ==
    << <<"dir", 0>>, <<"RW", 1>>, <<"RS", 0>>, <<"E", 1>>, <<"tick", 0>>,
       <<"read", 0>>, <<"E", 0>> >>

\* WaitCtrlReady has returned to CmdWrite or DataWrite.
WaitReturned == pc \in {"CmdWrite_521", "DataWrite_585"}

\* C15: WaitCtrlReady with budget T = LCD_WAIT_READY_TIMEOUT returns ready
\* right after the first poll whose bit 7 is clear, after k <= T polls and
\* k - 1 tick delays between them, whatever bits 6:0 of the status are; it
\* returns timeout exactly when T polls in a row showed busy, after T
\* polls; it never polls more than T times.
C15_WaitCtrlReady ==
    /\ WaitReturned =>
          IF timeout
             THEN trace = TimeoutTrace
             ELSE \E j \in 0..(LCD_WAIT_READY_TIMEOUT - 1) :
                     trace = Repeat(BusyPoll, j) \o ReadyPoll
    /\ Polls(trace) <= LCD_WAIT_READY_TIMEOUT
    /\ pc = "WaitCtrlReady_495" =>
          trace[Len(trace) - 1] = <<"read", status \div 128>>

\* WaitCtrlReady has returned ready to CmdWrite after one busy poll.
C15_Witness ==
    /\ op = "LCD_GotoXY" /\ pc = "CmdWrite_521" /\ ~timeout
    /\ trace = BusyPoll \o ReadyPoll

EndsWith(tr, t) ==
    Len(tr) >= Len(t) /\ SubSeq(tr, Len(tr) - Len(t) + 1, Len(tr)) = t

\* The bus accesses of BusyRead when it samples bit 7 as b.
StatusRead(b) ==
    << <<"dir", 0>>, <<"RW", 1>>, <<"RS", 0>>, <<"E", 1>>, <<"tick", 0>>,
       <<"read", b>>, <<"E", 0>> >>

\* The number of these accesses made when control is at a place of
\* BusyRead, or at its return to WaitCtrlReady.
StatusReadDone ==
    [l \in {"BusyRead_463", "BusyRead_464", "BusyRead_465", "BusyRead_467",
            "BusyRead_468", "BusyRead_470", "WaitCtrlReady_495"} |->
        CASE l = "BusyRead_463" -> 1
          [] l = "BusyRead_464" -> 2
          [] l = "BusyRead_465" -> 3
          [] l = "BusyRead_467" -> 4
          [] l = "BusyRead_468" -> 5
          [] l = "BusyRead_470" -> 6
          [] OTHER -> 7]

InBusyRead ==
    pc \in {"BusyRead_462", "BusyRead_463", "BusyRead_464", "BusyRead_465",
            "BusyRead_467", "BusyRead_468", "BusyRead_470"}

\* C16: BusyRead switches the data bus to input, then sets RW = 1 and
\* RS = 0, then asserts E, waits one tick, samples the bus while E is still
\* asserted, deasserts E and returns the sampled value; it never writes the
\* data bus output value, and at its return E = 0, RW = 1, RS = 0 and the
\* bus is in input mode.
C16_BusyReadOrder ==
    /\ [](/\ pc \in DOMAIN StatusReadDone =>
                EndsWith(trace, SubSeq(StatusRead(status \div 128), 1,
                                       StatusReadDone[pc]))
          /\ pc \in {"BusyRead_467", "BusyRead_468", "BusyRead_470"} =>
                (E = 1 /\ RW = 1 /\ RS = 0 /\ busDir = "in")
          /\ pc = "BusyRead_470" => status \in StatusVals
          /\ pc = "WaitCtrlReady_495" =>
                (E = 0 /\ RW = 1 /\ RS = 0 /\ busDir = "in"))
    /\ [][InBusyRead => dataOut' = dataOut]_vars

\* BusyRead has returned 0xFF while a byte latched before is still in the
\* data bus output register.
C16_Witness ==
    /\ op = "LCD_Putc" /\ pc = "WaitCtrlReady_495"
    /\ status = 255 /\ dataOut # 0
    /\ EndsWith(trace, StatusRead(1))

\* The bus accesses of a write of byte b with register select rs.
WriteSeq(rs, b) ==
    << <<"dir", 1>>, <<"RW", 0>>, <<"RS", rs>>, <<"data", b>>, <<"E", 1>>,
       <<"tick", 0>>, <<"E", 0>> >>

CmdWritePcs == <<"CmdWrite_523", "CmdWrite_524", "CmdWrite_525",
                 "CmdWrite_527", "CmdWrite_529", "CmdWrite_530",
                 "CmdWrite_531">>

DataWritePcs == <<"DataWrite_587", "DataWrite_588", "DataWrite_589",
                  "DataWrite_591", "DataWrite_593", "DataWrite_594",
                  "DataWrite_595">>

\* Control is in CmdWrite or DataWrite after WaitCtrlReady reported ready,
\* with n accesses of the write made.
WriteAt(pcs, n) == pc = pcs[n + 1]

BusLines == <<busDir, RW, RS, dataOut>>

\* The write of the byte of the last call, with n accesses made.
WriteInProgress(fn, rs, n) ==
    /\ calls # <<>>
    /\ calls[Len(calls)] = [fn |-> fn, byte |-> arg]
    /\ \E j \in 0..(LCD_WAIT_READY_TIMEOUT - 1) :
          trace = Repeat(BusyPoll, j) \o ReadyPoll
                    \o SubSeq(WriteSeq(rs, arg), 1, n)
    /\ IF n >= 5
          THEN E = 1 /\ RW = 0 /\ RS = rs /\ dataOut = arg /\ busDir = "out"
          ELSE E = 0

\* C17: when WaitCtrlReady reports ready, CmdWrite and DataWrite latch one
\* byte in the same order of steps: bus to output, RW = 0, RS set, the byte
\* put on the data bus, then E asserted, held for one tick and deasserted;
\* there is one E pulse, during which the bus value, RS and RW do not
\* change; RS is 0 in CmdWrite and 1 in DataWrite, the only difference.
C17_WriteOrder ==
    /\ [](\A n \in 0..6 :
            /\ WriteAt(CmdWritePcs, n) => WriteInProgress("CmdWrite", 0, n)
            /\ WriteAt(DataWritePcs, n) => WriteInProgress("DataWrite", 1, n))
    /\ [][(WriteAt(CmdWritePcs, 6) \/ WriteAt(DataWritePcs, 6)) =>
             /\ E' = 0 /\ trace' = Append(trace, <<"E", 0>>)
             /\ BusLines' = BusLines]_vars
    /\ [][(E = 1 /\ RW = 0) => BusLines' = BusLines]_vars

\* A space that pads a line is on the bus with E asserted for one tick.
C17_Witness ==
    /\ op = "LCD_WriteLine" /\ WriteAt(DataWritePcs, 6)
    /\ E = 1 /\ RS = 1 /\ dataOut = 32
    /\ Polls(trace) = 1

\* The statements of LCD_PowerOff in their order, and what each has set.
PowerOffOrder ==
    <<"PowerOff_255", "PowerOff_258", "PowerOff_264", "PowerOff_265",
      "PowerOff_266", "PowerOff_267", "PowerOff_268", "idle">>

PowerOffSet ==
    << TRUE, ~l_flgLCD_IsOn, pwr = 0, busDir = "out", RW = 0, RS = 0,
       dataOut = 0, E = 0 >>

\* C18: after LCD_PowerOff returns, from whatever state the completed
\* operations before it left (also a timed-out transfer, with the bus in
\* input mode and RW = 1), power-enable = 0, the data bus is in output mode
\* with value 0x00, RW = 0, RS = 0, E = 0 and the flag is false; each line
\* keeps the level LCD_PowerOff has given it until the return.
C18_PowerOffLevels ==
    (op = "LCD_PowerOff") =>
        /\ pc \in {PowerOffOrder[k] : k \in 1..8}
        /\ \A k \in 1..8 :
              pc = PowerOffOrder[k] => \A j \in 1..k : PowerOffSet[j]

\* LCD_PowerOff has removed the power and finds the bus in input mode with
\* RW = 1, as a timed-out transfer left it.
C18_Witness ==
    /\ op = "LCD_PowerOff" /\ pc = "PowerOff_264" /\ args.on
    /\ pwr = 0 /\ busDir = "in" /\ RW = 1 /\ E = 0

\* C19: for every contrast c in 0..63, LCD_PowerOn requests as its third,
\* fourth and fifth command the booster command 0x54 | (c >> 4), the follower
\* command and the contrast command 0x70 | (c & 0x0F); the two contrast
\* fields recombine to c, ((booster & 0x03) << 4) | (contrast & 0x0F) = c,
\* and the opcode bits are unchanged: booster & 0xFC = 0x54 and
\* contrast & 0xF0 = 0x70.
C19_ContrastSplit ==
    (op = "LCD_PowerOn" /\ l_Contrast \in Contrasts) =>
        /\ Len(calls) >= 3 =>
              /\ calls[3] = Cmd(BitOr(84, l_Contrast \div 16))
              /\ BitAnd(calls[3].byte, 252) = 84
        /\ Len(calls) >= 4 => calls[4] = Cmd(109)
        /\ Len(calls) >= 5 =>
              /\ calls[5] = Cmd(BitOr(112, BitAnd(l_Contrast, 15)))
              /\ BitAnd(calls[5].byte, 240) = 112
              /\ BitOr(ShiftLeft(BitAnd(calls[3].byte, 3), 4),
                       BitAnd(calls[5].byte, 15)) = l_Contrast

\* LCD_PowerOn has returned with contrast 0x25: booster 0x56, contrast 0x75.
C19_Witness ==
    /\ Returned("LCD_PowerOn") /\ l_Contrast = 37 /\ dropped = 0
    /\ calls[3] = Cmd(86) /\ calls[4] = Cmd(109) /\ calls[5] = Cmd(117)

\* The places at which E has been asserted: before the tick delay, and
\* after it up to the statement that deasserts E.
BeforeTick == {"BusyRead_467", "CmdWrite_530", "DataWrite_594"}
AfterTick == {"BusyRead_468", "BusyRead_470", "CmdWrite_531", "DataWrite_595"}

\* The bus accesses since E was last asserted.
RECURSIVE SinceAsserted(_)
SinceAsserted(tr) ==
    IF tr = <<>> \/ tr[Len(tr)] = <<"E", 1>> THEN <<>>
    ELSE Append(SinceAsserted(SubSeq(tr, 1, Len(tr) - 1)), tr[Len(tr)])

Ticks(tr) == Cardinality({k \in 1..Len(tr) : tr[k] = <<"tick", 0>>})

\* C20: between two public operations, whether their transfers succeeded or
\* timed out, E = 0; E is 1 only inside BusyRead, CmdWrite and DataWrite,
\* from the statement that asserts it to the one that deasserts it, with
\* exactly one tick delay in between.
C20_EnableNeverLeftAsserted ==
    /\ Finished => E = 0
    /\ E = 1 =>
          /\ pc \in BeforeTick \cup AfterTick
          /\ Ticks(SinceAsserted(trace)) = (IF pc \in BeforeTick THEN 0 ELSE 1)

\* LCD_Putc has returned after its transfer timed out: the bus is left in
\* input mode with RW = 1, and E is low.
C20_Witness ==
    /\ Returned("LCD_Putc") /\ args.on /\ dropped = 1
    /\ busDir = "in" /\ RW = 1 /\ E = 0 /\ trace = TimeoutTrace

\* C21: with the public operations called one after another, the data bus
\* is never in output mode while RW = 1 and E = 1; whenever E is asserted,
\* the bus direction and RW agree: input with RW = 1 (a status read) or
\* output with RW = 0 (a write).
C21_NoBusContention ==
    /\ ~(busDir = "out" /\ RW = 1 /\ E = 1)
    /\ E = 1 => \/ busDir = "in" /\ RW = 1
                \/ busDir = "out" /\ RW = 0

\* LCD_Puts has latched its first byte, which left the bus in output mode,
\* and asserts E in the status read of its second byte.
C21_Witness ==
    /\ op = "LCD_Puts" /\ pc = "BusyRead_467"
    /\ Len(calls) = 2 /\ latched = 1 /\ dropped = 0
    /\ E = 1 /\ busDir = "in" /\ RW = 1

====
